---- MODULE Spec2Model ----
(***************************************************************************)
(* Infrastructure lifecycle of LocalLLM Chat: the provisioning and         *)
(* teardown of its networks and containers on a Docker-compatible engine   *)
(* (src/src/container.rs), the health gate (src/src/utils.rs) and the run  *)
(* workflow that sequences them (src/src/lib.rs).                          *)
(*                                                                         *)
(* Names are sequences of tokens, so that the engine's name filter, which  *)
(* matches a name that contains the filter value, can be computed.         *)
(* An Option<T> is <<>> for None and <<v>> for Some(v).                    *)
(***************************************************************************)
EXTENDS Integers, Sequences, FiniteSets, TLC

\* Longest list of extra_backend_services the model draws.
MaxExtra == 2
\* Most operations a caller of the container module invokes in one behaviour.
MaxOps == 3
\* The health gate's attempt limit (while counter < 120).
MaxAttempts == 120
\* Most progress records one image pull streams before it ends.
MaxProgress == 2

Procs == {1, 2}

None == <<>>
Some(v) == <<v>>
IsSome(o) == o # <<>>
Unwrap(o) == o[1]

----------------------------------------------------------------------------
(* Names                                                                   *)

Prefix == <<"local_llm_">>
FrontendNet == Prefix \o <<"frontend">>
BackendNet == Prefix \o <<"backend">>
OpenWebuiName == Prefix \o <<"openwebui">>
TikaName == Prefix \o <<"tika">>
OPEN_WEBUI_IMAGE_BASE == "ghcr.io/open-webui/open-webui"
TIKA_IMAGE_BASE == "docker.io/apache/tika"

\* format!("local_llm_{}", extra_service.name)
ExtraName(svc) == Prefix \o svc.name

\* format!("{}:{}", base, tag)
ImageRef(base, tag) == base \o ":" \o tag

StartsWith(name, pre) ==
    /\ Len(name) >= Len(pre)
    /\ SubSeq(name, 1, Len(pre)) = pre

\* The engine's "name" filter: the name contains the filter value.
Contains(name, pat) ==
    \E i \in 0..(Len(name) - Len(pat)) : SubSeq(name, i + 1, i + Len(pat)) = pat

----------------------------------------------------------------------------
(* Configuration                                                           *)

Binding(h, c) == [host_path |-> h, container_path |-> c]

Service(n, img, ports, vols) ==
    [name |-> n, image |-> img, cmd |-> None, env |-> None, user |-> None,
     ports |-> ports, volume_bindings |-> vols, working_directory |-> None]

\* The extra services a configuration is drawn from.
Catalogue ==
    { Service(<<"a">>, "img_a", Some(<<"7000/tcp">>), Some(<<Binding("/tmp/x", "/data")>>)),
      Service(<<"a", "b">>, "img_ab", None, None),
      Service(<<"tika">>, "img_t", Some(<<>>), Some(<<>>)) }

RECURSIVE SeqsUpTo(_, _)
SeqsUpTo(S, n) ==
    IF n = 0 THEN {<<>>}
    ELSE LET shorter == SeqsUpTo(S, n - 1)
         IN shorter \cup {Append(s, x) : s \in {t \in shorter : Len(t) = n - 1}, x \in S}

LlmChatConfig ==
    { [openwebui_image_tag |-> "latest", tika_image_tag |-> "latest-full",
       extra_backend_services |-> e] :
         e \in {None} \cup {Some(s) : s \in SeqsUpTo(Catalogue, MaxExtra)} }

\* if let Some(extra_services) = app_config.extra_backend_services.clone()
ExtraServices(cfg) ==
    IF IsSome(cfg.extra_backend_services) THEN Unwrap(cfg.extra_backend_services) ELSE <<>>

UniqueNames(cfg) ==
    LET es == ExtraServices(cfg)
    IN \A i, j \in 1..Len(es) : es[i].name = es[j].name => i = j

----------------------------------------------------------------------------
(* Container specifications (ContainerCreateBody)                          *)

Range(s) == {s[i] : i \in 1..Len(s)}

Body(image, cmd, env, nets, exposed, host, user, wd) ==
    [image |-> image, cmd |-> cmd, env |-> env, networks |-> nets,
     exposed_ports |-> exposed, host_config |-> host, user |-> user,
     working_dir |-> wd]

DataDir == "/appdata/openwebui/data"

OpenWebuiNetworks == {FrontendNet, BackendNet}

OpenWebuiBody(cfg) ==
    Body(ImageRef(OPEN_WEBUI_IMAGE_BASE, cfg.openwebui_image_tag),
         None,
         Some(<<"ENV=dev", "WEBUI_AUTH=false">>),
         OpenWebuiNetworks,
         {"8080/tcp"},
         Some([binds |-> Some(<<DataDir \o ":/app/backend/data">>),
               port_bindings |-> Some({<<"8080/tcp", "11690">>})]),
         None, None)

\* A variant of TikaNetworks: the auxiliary container also joins the frontend network.
TikaNetworksWithFrontend == {FrontendNet, BackendNet}

TikaNetworks == {BackendNet}

TikaBody(cfg) ==
    Body(ImageRef(TIKA_IMAGE_BASE, cfg.tika_image_tag),
         None, None, TikaNetworks, {"9998/tcp"}, None, None, None)

\* A variant of BindString: the two paths change places.
BindStringReversed(v) == v.container_path \o ":" \o v.host_path

BindString(v) == v.host_path \o ":" \o v.container_path

ExtraHostConfig(svc) ==
    IF IsSome(svc.volume_bindings)
    THEN LET volume_bindings == Unwrap(svc.volume_bindings)
         IN Some([binds |-> Some([i \in 1..Len(volume_bindings) |->
                                     BindString(volume_bindings[i])]),
                  port_bindings |-> None])
    ELSE None

ExtraExposed(svc) ==
    IF IsSome(svc.ports) THEN Range(Unwrap(svc.ports)) ELSE {}

ExtraBody(svc) ==
    Body(svc.image, svc.cmd, svc.env, {BackendNet}, ExtraExposed(svc),
         ExtraHostConfig(svc), svc.user, svc.working_directory)

\* The host port bindings a container body asks for.
PortBindings(body) ==
    IF IsSome(body.host_config) /\ IsSome(Unwrap(body.host_config).port_bindings)
    THEN Unwrap(Unwrap(body.host_config).port_bindings)
    ELSE {}

----------------------------------------------------------------------------
(* State                                                                   *)

VARIABLES
    networks,       \* engine: the networks, [name, driver, options]
    containers,     \* engine: the containers, [name, running, body]
    images,         \* engine: the image references present locally
    app_config,     \* the LlmChatConfig of the run
    where,          \* per process: the caller's position (run workflow or free caller)
    op,             \* per process: the operation last invoked
    pc,             \* per process: position inside the invoked operation
    res,            \* per process: the result of the operation, "Ok" or an AppError kind
    k,              \* per process: index of the for loop over extra services or images
    todo,           \* per process: names a list call returned and the loop has not visited
    cur,            \* per process: the container the teardown loop is visiting
    counter,        \* per process: the health gate's counter
    polls,          \* per process: [n, last, seen]: the polls the health gate issued, their last outcome, all outcomes
    msgs,           \* per process: progress records consumed from the current pull stream
    container_err,  \* per process: the error create_infrastructure returned to run
    out,            \* per process: what run returned
    out_from,       \* per process: the operation whose error run returned
    calls,          \* per process: the create and start calls the current operation issued, in order
    issued,         \* per process: the list, stop and remove calls the current operation issued
    faults,         \* per process: whether a connect or a call of the current operation failed in transport
    hist,           \* per process: the operations completed, with their results
    pre             \* per process: the engine as it was when the current operation began

engine == <<networks, containers, images>>
loops == <<k, todo, cur, counter, polls, msgs>>
flow == <<where, op, container_err, out, out_from>>
ghost == <<hist, pre>>
vars == <<networks, containers, images, app_config, where, op, pc, res, k, todo, cur,
          counter, polls, msgs, container_err, out, out_from, calls, issued, faults,
          hist, pre>>

NetNames == {n.name : n \in networks}
ContNames == {c.name : c \in containers}
ContainerNamed(n) == CHOOSE c \in containers : c.name = n

\* Resources named under the namespace prefix.
PrefixedNets(ns) == {n \in ns : StartsWith(n.name, Prefix)}
PrefixedConts(cs) == {c \in cs : StartsWith(c.name, Prefix)}

Set(f, p, v) == [f EXCEPT ![p] = v]
Goto(p, l) == pc' = Set(pc, p, l)
Finish(p, r) == pc' = Set(pc, p, "ret") /\ res' = Set(res, p, r)
Log(p, kind, name, ok) ==
    /\ calls' = Set(calls, p, Append(calls[p], [call |-> kind, name |-> name, ok |-> ok]))
    /\ UNCHANGED issued
Note(p, kind, name) ==
    /\ issued' = Set(issued, p, issued[p] \cup {[call |-> kind, name |-> name]})
    /\ UNCHANGED calls

Advance(p, next) ==
    IF next = "ret" THEN Finish(p, "Ok") ELSE Goto(p, next) /\ UNCHANGED res

\* Docker::connect_with_local_defaults().map_err(AppError::DockerError)?
Fault(p, fault) == faults' = Set(faults, p, faults[p] \/ fault)

ConnectFails(p) ==
    /\ Finish(p, "DockerError")
    /\ Fault(p, TRUE)
    /\ UNCHANGED <<engine, calls, issued>>

----------------------------------------------------------------------------
(* Engine calls: each either takes effect, is refused by the engine, or    *)
(* fails in transport without effect.                                      *)

CreateNetworkCall(p, net, next) ==
    \E fault \in BOOLEAN :
        LET ok == ~fault /\ net.name \notin NetNames
        IN /\ Log(p, "create_network", net.name, ok)
           /\ Fault(p, fault)
           /\ IF ok THEN /\ networks' = networks \cup {net}
                         /\ Advance(p, next)
                    ELSE /\ UNCHANGED networks
                         /\ Finish(p, "DockerError")
           /\ UNCHANGED <<containers, images>>

CreateContainerCall(p, name, body, next) ==
    \E fault \in BOOLEAN :
        LET ok == ~fault /\ name \notin ContNames
        IN /\ Log(p, "create_container", name, ok)
           /\ Fault(p, fault)
           /\ IF ok THEN /\ containers' = containers \cup
                                {[name |-> name, running |-> FALSE, body |-> body]}
                         /\ Advance(p, next)
                    ELSE /\ UNCHANGED containers
                         /\ Finish(p, "DockerError")
           /\ UNCHANGED <<networks, images>>

\* A start is refused for a missing or running container, a missing network of
\* the container, or a host port another running container holds.
Startable(name) ==
    /\ name \in ContNames
    /\ LET c == ContainerNamed(name)
       IN /\ ~c.running
          /\ c.body.networks \subseteq NetNames
          /\ \A d \in containers :
                d.running /\ d.name # name =>
                    {b[2] : b \in PortBindings(d.body)} \cap
                    {b[2] : b \in PortBindings(c.body)} = {}

StartContainerCall(p, name, next) ==
    \E fault \in BOOLEAN :
        LET ok == ~fault /\ Startable(name)
        IN /\ Log(p, "start_container", name, ok)
           /\ Fault(p, fault)
           /\ IF ok THEN /\ containers' = (containers \ {ContainerNamed(name)}) \cup
                                {[ContainerNamed(name) EXCEPT !.running = TRUE]}
                         /\ Advance(p, next)
                    ELSE /\ UNCHANGED containers
                         /\ Finish(p, "DockerError")
           /\ UNCHANGED <<networks, images>>

----------------------------------------------------------------------------
(* create_infrastructure                                                   *)

\* A variant of BackendNetwork: it is given the frontend network's name.
BackendNetworkNamedFrontend == [name |-> FrontendNet, driver |-> None, options |-> None]

\* A variant of FrontendNetwork: when the name is taken, a second network is made.
FrontendNetworkOrCopy ==
    [name |-> IF FrontendNet \in NetNames THEN FrontendNet \o <<"_2">> ELSE FrontendNet,
     driver |-> Some("bridge"),
     options |-> Some({<<"com.docker.network.bridge.host_binding_ipv4", "127.0.0.1">>})]

FrontendNetwork ==
    [name |-> FrontendNet, driver |-> Some("bridge"),
     options |-> Some({<<"com.docker.network.bridge.host_binding_ipv4", "127.0.0.1">>})]

BackendNetwork == [name |-> BackendNet, driver |-> None, options |-> None]

create_frontend_network(p) ==
    /\ pc[p] = "create_frontend_network"
    /\ \/ ConnectFails(p)
       \/ CreateNetworkCall(p, FrontendNetwork, "create_backend_network")
    /\ UNCHANGED <<app_config, loops, flow, ghost>>

create_backend_network(p) ==
    /\ pc[p] = "create_backend_network"
    /\ \/ ConnectFails(p)
       \/ CreateNetworkCall(p, BackendNetwork, "create_openwebui_container")
    /\ UNCHANGED <<app_config, loops, flow, ghost>>

create_openwebui_container(p) ==
    /\ pc[p] = "create_openwebui_container"
    /\ \/ ConnectFails(p)
       \/ CreateContainerCall(p, OpenWebuiName, OpenWebuiBody(app_config), "start_openwebui_container")
    /\ UNCHANGED <<app_config, loops, flow, ghost>>

start_openwebui_container(p) ==
    /\ pc[p] = "start_openwebui_container"
    /\ StartContainerCall(p, OpenWebuiName, "create_tika_container")
    /\ UNCHANGED <<app_config, loops, flow, ghost>>

create_tika_container(p) ==
    /\ pc[p] = "create_tika_container"
    /\ \/ ConnectFails(p)
       \/ CreateContainerCall(p, TikaName, TikaBody(app_config), "start_tika_container")
    /\ UNCHANGED <<app_config, loops, flow, ghost>>

\* A variant of AfterTika: the extra services are never provisioned.
AfterTikaSkipExtras(cfg) == "ret"

\* The loop over extra services begins once the auxiliary container runs.
AfterTika(cfg) ==
    IF Len(ExtraServices(cfg)) > 0 THEN "create_extra_service_container" ELSE "ret"

start_tika_container(p) ==
    /\ pc[p] = "start_tika_container"
    /\ StartContainerCall(p, TikaName, AfterTika(app_config))
    /\ k' = Set(k, p, IF pc'[p] = "ret" THEN 0 ELSE 1)
    /\ UNCHANGED <<app_config, todo, cur, counter, polls, msgs, flow, ghost>>

create_extra_service_container(p) ==
    /\ pc[p] = "create_extra_service_container"
    /\ LET extra_service == ExtraServices(app_config)[k[p]]
       IN \/ ConnectFails(p)
          \/ CreateContainerCall(p, ExtraName(extra_service), ExtraBody(extra_service),
                                 "start_extra_service_container")
    /\ k' = Set(k, p, IF pc'[p] = "ret" THEN 0 ELSE k[p])
    /\ UNCHANGED <<app_config, todo, cur, counter, polls, msgs, flow, ghost>>

\* A variant of AfterExtra: the loop over extra services ends after one pass.
AfterExtraOnePass(cfg, i) == "ret"

\* for extra_service in extra_services: the next pass, or the end of the loop.
AfterExtra(cfg, i) ==
    IF i < Len(ExtraServices(cfg)) THEN "create_extra_service_container" ELSE "ret"

start_extra_service_container(p) ==
    /\ pc[p] = "start_extra_service_container"
    /\ StartContainerCall(p, ExtraName(ExtraServices(app_config)[k[p]]),
                          AfterExtra(app_config, k[p]))
    /\ k' = Set(k, p, IF pc'[p] = "ret" THEN 0 ELSE k[p] + 1)
    /\ UNCHANGED <<app_config, todo, cur, counter, polls, msgs, flow, ghost>>

create_infrastructure(p) ==
    \/ create_frontend_network(p)
    \/ create_backend_network(p)
    \/ create_openwebui_container(p)
    \/ start_openwebui_container(p)
    \/ create_tika_container(p)
    \/ start_tika_container(p)
    \/ create_extra_service_container(p)
    \/ start_extra_service_container(p)

----------------------------------------------------------------------------
(* cleanup_infrastructure: delete_containers, then delete_networks         *)

\* A variant of ContainerFilter: the names of the extra services are left out.
ContainerFilterFixedOnly(cfg) == {OpenWebuiName, TikaName}

\* container_names: the two fixed names and one per extra service.
ContainerFilter(cfg) ==
    {OpenWebuiName, TikaName} \cup {ExtraName(s) : s \in Range(ExtraServices(cfg))}

\* The names of the containers of cs that the name filter of cfg matches.
MatchedContainers(cs, cfg) ==
    {c.name : c \in {d \in cs : \E f \in ContainerFilter(cfg) : Contains(d.name, f)}}

\* A variant of ListContainers: without all(true) only running containers are listed.
ListContainersRunning(cfg) ==
    MatchedContainers({c \in containers : c.running}, cfg)

\* list_containers with all(true) and the name filter.
ListContainers(cfg) == MatchedContainers(containers, cfg)

\* A variant of NetworkFilter: only the frontend network is looked for.
NetworkFilterFrontendOnly == {FrontendNet}

\* A variant of NetworkFilter: a filter value that every network name contains.
NetworkFilterEverything == {<<>>}

NetworkFilter == {Prefix}

\* The names of the networks of ns that the name filter matches.
MatchedNetworks(ns) ==
    {n.name : n \in {m \in ns : \E f \in NetworkFilter : Contains(m.name, f)}}

\* list_networks with the name filter.
ListNetworks == MatchedNetworks(networks)

delete_containers(p) ==
    /\ pc[p] = "delete_containers"
    /\ \/ ConnectFails(p) /\ UNCHANGED todo
       \/ \E fault \in BOOLEAN :
            /\ Note(p, "list_containers", <<>>)
            /\ Fault(p, fault)
            /\ IF fault
               THEN Finish(p, "DockerError") /\ UNCHANGED todo
               ELSE /\ todo' = Set(todo, p, ListContainers(app_config))
                    /\ Goto(p, IF ListContainers(app_config) = {}
                               THEN "delete_networks" ELSE "stop_container")
                    /\ UNCHANGED res
            /\ UNCHANGED engine
    /\ UNCHANGED <<app_config, k, cur, counter, polls, msgs, flow, ghost>>

\* let _ = docker.stop_container(..).await;  the result is dropped
stop_container(p) ==
    /\ pc[p] = "stop_container"
    /\ \E n \in todo[p], fault \in BOOLEAN :
         LET ok == ~fault /\ n \in ContNames /\ ContainerNamed(n).running
         IN /\ Note(p, "stop_container", n)
            /\ Fault(p, fault)
            /\ containers' = IF ok
                             THEN (containers \ {ContainerNamed(n)}) \cup
                                  {[ContainerNamed(n) EXCEPT !.running = FALSE]}
                             ELSE containers
            /\ cur' = Set(cur, p, n)
    /\ Goto(p, "remove_container")
    /\ UNCHANGED <<networks, images, app_config, res, k, todo, counter, polls, msgs, flow, ghost>>

\* A variant of RemoveContainerFailed: the failure is passed over and the loop
\* goes on to the next container.
RemoveContainerFailedSkip(p, rest) ==
    /\ todo' = Set(todo, p, rest)
    /\ Goto(p, IF rest = {} THEN "delete_networks" ELSE "stop_container")
    /\ UNCHANGED res

\* .map_err(|e| AppError::DockerError(e))? on remove_container: the loop is left.
RemoveContainerFailed(p, rest) ==
    /\ todo' = Set(todo, p, {})
    /\ Finish(p, "DockerError")

\* remove_container with force(true); the for loop goes on to the next container.
remove_container(p) ==
    /\ pc[p] = "remove_container"
    /\ \E fault \in BOOLEAN :
         LET ok == ~fault /\ cur[p] \in ContNames
             rest == todo[p] \ {cur[p]}
         IN /\ Note(p, "remove_container", cur[p])
            /\ Fault(p, fault)
            /\ IF ok
               THEN /\ containers' = containers \ {ContainerNamed(cur[p])}
                    /\ todo' = Set(todo, p, rest)
                    /\ Goto(p, IF rest = {} THEN "delete_networks" ELSE "stop_container")
                    /\ UNCHANGED res
               ELSE /\ UNCHANGED containers
                    /\ RemoveContainerFailed(p, rest)
    /\ cur' = Set(cur, p, <<>>)
    /\ UNCHANGED <<networks, images, app_config, k, counter, polls, msgs, flow, ghost>>

delete_networks(p) ==
    /\ pc[p] = "delete_networks"
    /\ \/ ConnectFails(p) /\ UNCHANGED todo
       \/ \E fault \in BOOLEAN :
            /\ Note(p, "list_networks", <<>>)
            /\ Fault(p, fault)
            /\ IF fault
               THEN Finish(p, "DockerError") /\ UNCHANGED todo
               ELSE /\ todo' = Set(todo, p, ListNetworks)
                    /\ Advance(p, IF ListNetworks = {} THEN "ret" ELSE "remove_network")
            /\ UNCHANGED engine
    /\ UNCHANGED <<app_config, k, cur, counter, polls, msgs, flow, ghost>>

\* The engine refuses to remove a network that a running container is attached to.
Removable(n) ==
    /\ n \in NetNames
    /\ \A c \in containers : c.running => n \notin c.body.networks

remove_network(p) ==
    /\ pc[p] = "remove_network"
    /\ \E n \in todo[p], fault \in BOOLEAN :
         LET ok == ~fault /\ Removable(n)
             rest == todo[p] \ {n}
         IN /\ Note(p, "remove_network", n)
            /\ Fault(p, fault)
            /\ IF ok
               THEN /\ networks' = {m \in networks : m.name # n}
                    /\ todo' = Set(todo, p, rest)
                    /\ Advance(p, IF rest = {} THEN "ret" ELSE "remove_network")
               ELSE /\ UNCHANGED networks
                    /\ todo' = Set(todo, p, {})
                    /\ Finish(p, "DockerError")
    /\ UNCHANGED <<containers, images, app_config, k, cur, counter, polls, msgs, flow, ghost>>

cleanup_infrastructure(p) ==
    \/ delete_containers(p)
    \/ stop_container(p)
    \/ remove_container(p)
    \/ delete_networks(p)
    \/ remove_network(p)

----------------------------------------------------------------------------
(* pull_required_images                                                    *)

\* A variant of RequiredImages: the images of the extra services are left out.
RequiredImagesNoExtras(cfg) ==
    <<ImageRef(OPEN_WEBUI_IMAGE_BASE, cfg.openwebui_image_tag),
      ImageRef(TIKA_IMAGE_BASE, cfg.tika_image_tag)>>

\* images: the primary, the auxiliary, then each extra service's image.
RequiredImages(cfg) ==
    <<ImageRef(OPEN_WEBUI_IMAGE_BASE, cfg.openwebui_image_tag),
      ImageRef(TIKA_IMAGE_BASE, cfg.tika_image_tag)>>
    \o [i \in 1..Len(ExtraServices(cfg)) |-> ExtraServices(cfg)[i].image]

\* pull_image: connect, then docker.create_image opens the pull stream.
pull_image(p) ==
    /\ pc[p] = "pull_image"
    /\ \/ ConnectFails(p)
       \/ /\ Log(p, "create_image", RequiredImages(app_config)[k[p]], TRUE)
          /\ Goto(p, "pull_stream")
          /\ UNCHANGED <<engine, res, faults>>
    /\ k' = Set(k, p, IF pc'[p] = "ret" THEN 0 ELSE k[p])
    /\ UNCHANGED <<app_config, todo, cur, counter, polls, msgs, flow, ghost>>

\* while let Some(msg) = pull_stream.next().await
pull_stream(p) ==
    /\ pc[p] = "pull_stream"
    /\ \/ \* Ok(msg): a progress record is printed
          /\ msgs[p] < MaxProgress
          /\ msgs' = Set(msgs, p, msgs[p] + 1)
          /\ UNCHANGED <<engine, pc, res, k, faults>>
       \/ \* Err(err): return Err(AppError::DockerError(err))
          /\ Finish(p, "DockerError")
          /\ Fault(p, TRUE)
          /\ msgs' = Set(msgs, p, 0)
          /\ k' = Set(k, p, 0)
          /\ UNCHANGED engine
       \/ \* None: the stream ended, the image is present; on to the next image
          /\ images' = images \cup {RequiredImages(app_config)[k[p]]}
          /\ Advance(p, IF k[p] < Len(RequiredImages(app_config)) THEN "pull_image" ELSE "ret")
          /\ msgs' = Set(msgs, p, 0)
          /\ k' = Set(k, p, IF pc'[p] = "ret" THEN 0 ELSE k[p] + 1)
          /\ UNCHANGED <<networks, containers, faults>>
    /\ UNCHANGED <<app_config, todo, cur, counter, polls, calls, issued, faults, flow, ghost>>

pull_required_images(p) ==
    \/ pull_image(p)
    \/ pull_stream(p)

----------------------------------------------------------------------------
(* wait_until_openwebui_is_healthy                                         *)

\* What one poll of /health can end in: reqwest::get fails, the body does not
\* decode to OpenWebUiHealthStatus, or it decodes to status false or true.
PollOutcomes == {"transport_error", "decode_error", "status_false", "status_true"}

NoPolls == [n |-> 0, last |-> "none", seen |-> {}]

\* A variant of Healthy: any body that decodes counts, whatever its status.
HealthyWhenDecoded(outcome) == outcome \in {"status_true", "status_false"}

\* if let Ok(response) .. if let Ok(status_data) .. if status_data.status
Healthy(outcome) == outcome = "status_true"

\* One pass of the loop body: the GET, the decode, and counter += 1 on failure.
poll(p) ==
    /\ pc[p] = "poll"
    /\ \E o \in PollOutcomes :
         /\ polls' = Set(polls, p, [n |-> polls[p].n + 1, last |-> o,
                                    seen |-> polls[p].seen \cup {o}])
         /\ IF Healthy(o)
            THEN Finish(p, "Ok") /\ counter' = Set(counter, p, 0)
            ELSE /\ counter' = Set(counter, p, counter[p] + 1)
                 /\ Goto(p, "sleep")
                 /\ UNCHANGED res
    /\ UNCHANGED <<engine, app_config, k, todo, cur, msgs, calls, issued, faults, flow, ghost>>

\* A variant of LoopCondition: the loop allows one attempt more.
LoopConditionOneMore(c) == c <= MaxAttempts

\* A variant of LoopCondition: the loop gives up one attempt early.
LoopConditionOneShort(c) == c < MaxAttempts - 1

\* while counter < 120
LoopCondition(c) == c < MaxAttempts

\* std::thread::sleep(Duration::from_secs(1)), then the loop condition.
sleep(p) ==
    /\ pc[p] = "sleep"
    /\ Goto(p, IF LoopCondition(counter[p]) THEN "poll" ELSE "timed_out")
    /\ UNCHANGED <<engine, app_config, res, loops, calls, issued, faults, flow, ghost>>

\* The kind of error the exhausted gate returns.
TimeoutError == "GenericError"

\* The "Startup took too long" dialog, then Err(AppError::GenericError(..)).
timed_out(p) ==
    /\ pc[p] = "timed_out"
    /\ Finish(p, TimeoutError)
    /\ counter' = Set(counter, p, 0)
    /\ UNCHANGED <<engine, app_config, k, todo, cur, polls, msgs, calls, issued, faults, flow, ghost>>

wait_until_openwebui_is_healthy(p) ==
    \/ poll(p)
    \/ sleep(p)
    \/ timed_out(p)

----------------------------------------------------------------------------
(* A caller of the container module: any sequence of its public operations *)

Snapshot == [networks |-> networks, containers |-> containers]
NoSnapshot == [networks |-> {}, containers |-> {}]

\* No network and no container is named under the namespace prefix.
Clean(e) == PrefixedNets(e.networks) = {} /\ PrefixedConts(e.containers) = {}

\* A variant of Entry: cleanup_infrastructure begins with delete_networks.
EntryNetworksFirst(o) ==
    CASE o = "create_infrastructure" -> "create_frontend_network"
      [] o = "cleanup_infrastructure" -> "delete_networks"
      [] o = "pull_required_images" -> "pull_image"
      [] o = "wait_until_openwebui_is_healthy" -> "poll"

\* The first step of each operation.
Entry(o) ==
    CASE o = "create_infrastructure" -> "create_frontend_network"
      [] o = "cleanup_infrastructure" -> "delete_containers"
      [] o = "pull_required_images" -> "pull_image"
      [] o = "wait_until_openwebui_is_healthy" -> "poll"

Begin(p, o) ==
    /\ op' = Set(op, p, o)
    /\ pc' = Set(pc, p, Entry(o))
    /\ res' = Set(res, p, "none")
    /\ calls' = Set(calls, p, <<>>)
    /\ issued' = Set(issued, p, {})
    /\ faults' = Set(faults, p, FALSE)
    /\ pre' = Set(pre, p, Snapshot)

Completed(p) ==
    hist' = Set(hist, p, Append(hist[p],
                [op |-> op[p], res |-> res[p], clean |-> Clean(pre[p])]))

Invoke(p) ==
    /\ where[p] = "caller"
    /\ pc[p] = "idle"
    /\ Len(hist[p]) < MaxOps
    /\ \E o \in {"create_infrastructure", "cleanup_infrastructure"} : Begin(p, o)
    /\ UNCHANGED <<engine, app_config, loops, where, container_err, out, out_from, hist>>

Return(p) ==
    /\ where[p] = "caller"
    /\ pc[p] = "ret"
    /\ Completed(p)
    /\ Goto(p, "idle")
    /\ res' = Set(res, p, "none")
    /\ calls' = Set(calls, p, <<>>)
    /\ issued' = Set(issued, p, {})
    /\ faults' = Set(faults, p, FALSE)
    /\ pre' = Set(pre, p, NoSnapshot)
    /\ UNCHANGED <<engine, app_config, loops, flow>>

----------------------------------------------------------------------------
(* Initial states                                                          *)

BridgeNetwork == [name |-> <<"bridge">>, driver |-> Some("bridge"), options |-> None]

OtherContainer(n) ==
    [name |-> n, running |-> TRUE,
     body |-> Body("img_o", None, None, {<<"bridge">>}, {}, None, None, None)]

\* What the engine may hold that this program did not create.
ForeignEngines ==
    { [networks |-> {}, containers |-> {}],
      [networks |-> {BridgeNetwork},
       containers |-> {OtherContainer(<<"other">>)}] }

\* The images the engine may hold locally before the program runs.
LocalImages == {{}, {"img_a"}}

\* No process has invoked anything yet.
InitProcs ==
    /\ op = [p \in Procs |-> "none"]
    /\ pc = [p \in Procs |-> "idle"]
    /\ res = [p \in Procs |-> "none"]
    /\ k = [p \in Procs |-> 0]
    /\ todo = [p \in Procs |-> {}]
    /\ cur = [p \in Procs |-> <<>>]
    /\ counter = [p \in Procs |-> 0]
    /\ polls = [p \in Procs |-> NoPolls]
    /\ msgs = [p \in Procs |-> 0]
    /\ container_err = [p \in Procs |-> "none"]
    /\ out = [p \in Procs |-> "none"]
    /\ out_from = [p \in Procs |-> "none"]
    /\ calls = [p \in Procs |-> <<>>]
    /\ issued = [p \in Procs |-> {}]
    /\ faults = [p \in Procs |-> FALSE]
    /\ hist = [p \in Procs |-> <<>>]
    /\ pre = [p \in Procs |-> NoSnapshot]

InitCommon ==
    /\ app_config \in LlmChatConfig
    /\ \E e \in ForeignEngines : networks = e.networks /\ containers = e.containers
    /\ InitProcs

----------------------------------------------------------------------------
(* run: the workflow of the application                                    *)

\* The errors of building the app, setting up the local appdata directory,
\* loading the configuration and resolving the data directory.
SetupErrors == {"TauriError", "IOError", "YamlError"}

ReturnFromRun(p, r, o) ==
    /\ where' = Set(where, p, "returned")
    /\ out' = Set(out, p, r)
    /\ out_from' = Set(out_from, p, o)
    /\ pc' = Set(pc, p, "idle")
    /\ res' = Set(res, p, "none")
    /\ calls' = Set(calls, p, <<>>)
    /\ issued' = Set(issued, p, {})
    /\ faults' = Set(faults, p, FALSE)
    /\ pre' = Set(pre, p, NoSnapshot)
    /\ UNCHANGED op

run_setup(p) ==
    /\ where[p] = "start"
    /\ \/ \E e \in SetupErrors :
            /\ ReturnFromRun(p, e, "setup")
            /\ UNCHANGED <<container_err, hist>>
       \/ /\ where' = Set(where, p, "pull")
          /\ Begin(p, "pull_required_images")
          /\ UNCHANGED <<container_err, out, out_from, hist>>
    /\ k' = Set(k, p, IF where'[p] = "pull" THEN 1 ELSE 0)
    /\ UNCHANGED <<engine, app_config, todo, cur, counter, polls, msgs>>

\* if let Err(container_err) = pull_required_images(..) { return Err(container_err) }
run_after_pull(p) ==
    /\ where[p] = "pull"
    /\ pc[p] = "ret"
    /\ Completed(p)
    /\ IF res[p] # "Ok"
       THEN ReturnFromRun(p, res[p], op[p])
       ELSE /\ where' = Set(where, p, "pre_cleanup")
            /\ Begin(p, "cleanup_infrastructure")
            /\ UNCHANGED <<out, out_from>>
    /\ UNCHANGED <<engine, app_config, loops, container_err>>

\* A variant of run_after_pre_cleanup: the result of the cleanup is not looked at.
run_after_pre_cleanup_unchecked(p) ==
    /\ where[p] = "pre_cleanup"
    /\ pc[p] = "ret"
    /\ Completed(p)
    /\ where' = Set(where, p, "create")
    /\ Begin(p, "create_infrastructure")
    /\ UNCHANGED <<engine, app_config, loops, container_err, out, out_from>>

\* if let Err(container_err) = cleanup_infrastructure(..) { return Err(container_err) }
run_after_pre_cleanup(p) ==
    /\ where[p] = "pre_cleanup"
    /\ pc[p] = "ret"
    /\ Completed(p)
    /\ IF res[p] # "Ok"
       THEN ReturnFromRun(p, res[p], op[p])
       ELSE /\ where' = Set(where, p, "create")
            /\ Begin(p, "create_infrastructure")
            /\ UNCHANGED <<out, out_from>>
    /\ UNCHANGED <<engine, app_config, loops, container_err>>

\* On Err: show the error, cleanup_infrastructure(..).await?, return Err(container_err).
\* On Ok: the health gate.
\* A variant of on_create_error: the error is returned with no rollback.
on_create_error_return(p) ==
    /\ ReturnFromRun(p, res[p], op[p])
    /\ UNCHANGED container_err

on_create_error(p) ==
    /\ container_err' = Set(container_err, p, res[p])
    /\ where' = Set(where, p, "rollback")
    /\ Begin(p, "cleanup_infrastructure")
    /\ UNCHANGED <<out, out_from>>

run_after_create(p) ==
    /\ where[p] = "create"
    /\ pc[p] = "ret"
    /\ Completed(p)
    /\ IF res[p] # "Ok"
       THEN on_create_error(p)
       ELSE /\ where' = Set(where, p, "health")
            /\ Begin(p, "wait_until_openwebui_is_healthy")
            /\ UNCHANGED <<container_err, out, out_from>>
    /\ counter' = Set(counter, p, 0)
    /\ polls' = Set(polls, p, NoPolls)
    /\ UNCHANGED <<engine, app_config, k, todo, cur, msgs>>

\* The error run returns after the rollback cleanup: the cleanup's own error
\* when it failed (the ? operator), else the error of create_infrastructure.
RollbackResult(cleanup_res, create_err) ==
    IF cleanup_res # "Ok"
    THEN [kind |-> cleanup_res, from |-> "cleanup_infrastructure"]
    ELSE [kind |-> create_err, from |-> "create_infrastructure"]

run_after_rollback(p) ==
    /\ where[p] = "rollback"
    /\ pc[p] = "ret"
    /\ Completed(p)
    /\ LET err == RollbackResult(res[p], container_err[p])
       IN ReturnFromRun(p, err.kind, err.from)
    /\ UNCHANGED <<engine, app_config, loops, container_err>>

\* utils::wait_until_openwebui_is_healthy(..).await?;  then app.run(..)
run_after_health(p) ==
    /\ where[p] = "health"
    /\ pc[p] = "ret"
    /\ Completed(p)
    /\ IF res[p] # "Ok"
       THEN ReturnFromRun(p, res[p], op[p])
       ELSE /\ where' = Set(where, p, "app")
            /\ pc' = Set(pc, p, "idle")
            /\ res' = Set(res, p, "none")
            /\ UNCHANGED <<op, out, out_from, calls, issued, faults, pre>>
    /\ polls' = Set(polls, p, NoPolls)
    /\ UNCHANGED <<engine, app_config, k, todo, cur, counter, msgs, container_err>>

\* While the application runs, a container of the engine may stop on its own
\* (its process exits); the program is not told.
container_exits ==
    /\ \E p \in Procs : where[p] = "app"
    /\ \E c \in {d \in containers : d.running} :
          containers' = (containers \ {c}) \cup {[c EXCEPT !.running = FALSE]}
    /\ UNCHANGED <<networks, images, app_config, pc, res, loops, flow, calls, issued,
                   faults, ghost>>

\* A variant of run_exit: the application exits without the cleanup.
run_exit_without_cleanup(p) ==
    /\ where[p] = "app"
    /\ where' = Set(where, p, "exited")
    /\ out' = Set(out, p, "Ok")
    /\ out_from' = Set(out_from, p, "none")
    /\ UNCHANGED <<engine, app_config, pc, res, loops, op, container_err, calls, issued,
                   faults, ghost>>

\* RunEvent::Exit: the exit handler runs cleanup_infrastructure.
run_exit(p) ==
    /\ where[p] = "app"
    /\ where' = Set(where, p, "exit_cleanup")
    /\ Begin(p, "cleanup_infrastructure")
    /\ UNCHANGED <<engine, app_config, loops, container_err, out, out_from, hist>>

\* if let Err(container_err) = cleanup_result { show_docker_error(..) }; the app exits.
run_after_exit_cleanup(p) ==
    /\ where[p] = "exit_cleanup"
    /\ pc[p] = "ret"
    /\ Completed(p)
    /\ where' = Set(where, p, "exited")
    /\ out' = Set(out, p, "Ok")
    /\ out_from' = Set(out_from, p, "none")
    /\ pc' = Set(pc, p, "idle")
    /\ res' = Set(res, p, "none")
    /\ UNCHANGED <<engine, app_config, loops, op, container_err, calls, issued, faults, pre>>

run(p) ==
    \/ run_setup(p)
    \/ run_after_pull(p)
    \/ run_after_pre_cleanup(p)
    \/ run_after_create(p)
    \/ run_after_rollback(p)
    \/ run_after_health(p)
    \/ run_exit(p)
    \/ run_after_exit_cleanup(p)

Init ==
    /\ InitCommon
    /\ images = {}
    /\ where = [p \in Procs |-> IF p = 1 THEN "caller" ELSE "off"]

Next ==
    \E p \in Procs :
        \/ Invoke(p)
        \/ Return(p)
        \/ create_infrastructure(p)
        \/ cleanup_infrastructure(p)

Spec == Init /\ [][Next]_vars

InitRun ==
    /\ InitCommon
    /\ images \in LocalImages
    /\ where = [p \in Procs |-> IF p = 1 THEN "start" ELSE "off"]

NextRun ==
    \/ \E p \in Procs :
          \/ run(p)
          \/ pull_required_images(p)
          \/ cleanup_infrastructure(p)
          \/ create_infrastructure(p)
          \/ wait_until_openwebui_is_healthy(p)
    \/ container_exits

SpecRun == InitRun /\ [][NextRun]_vars

----------------------------------------------------------------------------
(* An engine that holds resources of others with names alike               *)

\* A network and a container that are not this program's, whose names contain
\* the names this program uses: my_local_llm_net and local_llm_tika_old.
LookalikeNetwork ==
    [name |-> <<"my_", "local_llm_", "net">>, driver |-> None, options |-> None]

LookalikeContainer == OtherContainer(<<"local_llm_", "tika", "_old">>)

InitForeign ==
    /\ app_config \in {c \in LlmChatConfig : Len(ExtraServices(c)) <= 1}
    /\ networks = {BridgeNetwork, LookalikeNetwork}
    /\ containers = {OtherContainer(<<"other">>), LookalikeContainer}
    /\ images = {}
    /\ InitProcs
    /\ where = [p \in Procs |-> IF p = 1 THEN "caller" ELSE "off"]

SpecForeign == InitForeign /\ [][Next]_vars

----------------------------------------------------------------------------
(* The container specification of an extra service, over its inputs        *)

\* cmd, env, user and working_directory: all absent, or all given.
OptionalInputs ==
    { [cmd |-> None, env |-> None, user |-> None, working_directory |-> None],
      [cmd |-> Some(<<"serve", "--fast">>), env |-> Some(<<"K=V", "L=W">>),
       user |-> Some("1000:1000"), working_directory |-> Some("/srv")] }

PortInputs ==
    {None, Some(<<>>), Some(<<"7000/tcp">>), Some(<<"7000/tcp", "7001/udp">>)}

VolumeInputs ==
    {None, Some(<<>>), Some(<<Binding("/tmp/x", "/data")>>),
     Some(<<Binding("/tmp/x", "/data"), Binding("/var/y", "/cache")>>),
     Some(<<Binding("/var/y", "/cache"), Binding("/tmp/x", "/data")>>)}

ExtraServiceInputs ==
    { [name |-> <<"svc">>, image |-> "img_s", cmd |-> o.cmd, env |-> o.env,
       user |-> o.user, ports |-> ports, volume_bindings |-> vols,
       working_directory |-> o.working_directory] :
         o \in OptionalInputs, ports \in PortInputs, vols \in VolumeInputs }

\* A configuration with one extra service, drawn from the inputs above.
InitExtra ==
    /\ \E svc \in ExtraServiceInputs :
          app_config = [openwebui_image_tag |-> "latest", tika_image_tag |-> "latest-full",
                        extra_backend_services |-> Some(<<svc>>)]
    /\ networks = {}
    /\ containers = {}
    /\ images = {}
    /\ InitProcs
    /\ where = [p \in Procs |-> IF p = 1 THEN "caller" ELSE "off"]

SpecExtra == InitExtra /\ [][Next]_vars

\* The exit handler drives cleanup_infrastructure with block_on: every engine
\* call of it returns and the handler then returns.
SpecRunFair ==
    /\ SpecRun
    /\ \A p \in Procs : WF_vars(cleanup_infrastructure(p))
    /\ \A p \in Procs : WF_vars(run_after_exit_cleanup(p))

\* The run workflow in which the health gate, once begun, keeps taking its
\* steps: each poll ends in one of its outcomes, the sleep of one second ends,
\* and the dialog of the exhausted gate is closed.
SpecGateFair ==
    SpecRun /\ \A p \in Procs : WF_vars(wait_until_openwebui_is_healthy(p))

----------------------------------------------------------------------------
(* Sequential re-entry: a run that ended or crashed, then a new run         *)

\* The positions of run at which the process is alive.
Alive == {"start", "pull", "pre_cleanup", "create", "rollback", "health", "app",
          "exit_cleanup"}

Terminated(p) == where[p] \in {"returned", "exited", "crashed"}

\* Nothing of a process outlives it: the manager holds no handle and keeps no
\* record between runs; only the engine's state remains.
Forget(p) ==
    /\ op' = Set(op, p, "none")
    /\ pc' = Set(pc, p, "idle")
    /\ res' = Set(res, p, "none")
    /\ k' = Set(k, p, 0)
    /\ todo' = Set(todo, p, {})
    /\ cur' = Set(cur, p, <<>>)
    /\ counter' = Set(counter, p, 0)
    /\ polls' = Set(polls, p, NoPolls)
    /\ msgs' = Set(msgs, p, 0)
    /\ container_err' = Set(container_err, p, "none")
    /\ out' = Set(out, p, "none")
    /\ out_from' = Set(out_from, p, "none")
    /\ calls' = Set(calls, p, <<>>)
    /\ issued' = Set(issued, p, {})
    /\ faults' = Set(faults, p, FALSE)
    /\ hist' = Set(hist, p, <<>>)
    /\ pre' = Set(pre, p, NoSnapshot)

\* "something catastrophically occurred in a previous session": the process
\* dies between two engine calls, wherever it is.
crash(p) ==
    /\ where[p] \in Alive
    /\ where' = Set(where, p, "crashed")
    /\ Forget(p)
    /\ UNCHANGED <<engine, app_config>>

\* The application is started again, with the same configuration, after the
\* earlier process is gone.
reenter(q) ==
    /\ where[q] = "off"
    /\ \E p \in Procs \ {q} :
          /\ Terminated(p)
          /\ Forget(p)
    /\ where' = Set(where, q, "start")
    /\ UNCHANGED <<engine, app_config>>

NextReentry ==
    \E p \in Procs :
        \/ run(p)
        \/ pull_required_images(p)
        \/ cleanup_infrastructure(p)
        \/ create_infrastructure(p)
        \/ wait_until_openwebui_is_healthy(p)
        \/ crash(p)
        \/ reenter(p)

SpecReentry == InitRun /\ [][NextReentry]_vars

----------------------------------------------------------------------------
(* Two instances of the application against the same engine                *)

\* Both instances run the default configuration, have pulled their images and
\* are entering the pre-emptive cleanup; the engine holds nothing else.
InitConcurrent ==
    /\ app_config \in {c \in LlmChatConfig : c.extra_backend_services = None}
    /\ networks = {}
    /\ containers = {}
    /\ images = Range(RequiredImages(app_config))
    /\ where = [p \in Procs |-> "pre_cleanup"]
    /\ op = [p \in Procs |-> "cleanup_infrastructure"]
    /\ pc = [p \in Procs |-> Entry("cleanup_infrastructure")]
    /\ res = [p \in Procs |-> "none"]
    /\ k = [p \in Procs |-> 0]
    /\ todo = [p \in Procs |-> {}]
    /\ cur = [p \in Procs |-> <<>>]
    /\ counter = [p \in Procs |-> 0]
    /\ polls = [p \in Procs |-> NoPolls]
    /\ msgs = [p \in Procs |-> 0]
    /\ container_err = [p \in Procs |-> "none"]
    /\ out = [p \in Procs |-> "none"]
    /\ out_from = [p \in Procs |-> "none"]
    /\ calls = [p \in Procs |-> <<>>]
    /\ issued = [p \in Procs |-> {}]
    /\ faults = [p \in Procs |-> FALSE]
    /\ hist = [p \in Procs |->
                 <<[op |-> "pull_required_images", res |-> "Ok", clean |-> TRUE]>>]
    /\ pre = [p \in Procs |-> NoSnapshot]

\* Each instance is followed from its pre-emptive cleanup to the point where
\* it returns an error or enters the health gate. With the default
\* configuration the loop of create_infrastructure over the extra services has
\* no pass, so its steps are those of the two networks and the two containers.
NextConcurrent ==
    \E p \in Procs :
        \/ run_after_pre_cleanup(p)
        \/ run_after_create(p)
        \/ run_after_rollback(p)
        \/ cleanup_infrastructure(p)
        \/ create_frontend_network(p)
        \/ create_backend_network(p)
        \/ create_openwebui_container(p)
        \/ start_openwebui_container(p)
        \/ create_tika_container(p)
        \/ start_tika_container(p)

SpecConcurrent == InitConcurrent /\ [][NextConcurrent]_vars

----------------------------------------------------------------------------
(* Properties                                                              *)

Create == "create_infrastructure"
Cleanup == "cleanup_infrastructure"
Pull == "pull_required_images"
Gate == "wait_until_openwebui_is_healthy"

\* The names cleanup_infrastructure is to look for, as the specification gives
\* them: local_llm_openwebui, local_llm_tika, local_llm_<name> per extra service,
\* and every network of the local_llm_ namespace.
ManagedContainerNames(cfg) ==
    {<<"local_llm_", "openwebui">>, <<"local_llm_", "tika">>}
    \cup {<<"local_llm_">> \o ExtraServices(cfg)[i].name : i \in 1..Len(ExtraServices(cfg))}

ManagedContainers(cs, cfg) ==
    {c \in cs : \E f \in ManagedContainerNames(cfg) : Contains(c.name, f)}

ManagedNetworks(ns) == {n \in ns : Contains(n.name, <<"local_llm_">>)}

\* The caller p has just got back the result of its n-th operation.
JustReturned(p, n) == pc[p] = "idle" /\ Len(hist[p]) = n

\* C1: for a configuration with unique service names, a create_infrastructure
\* that succeeded from an engine with nothing named under local_llm_, followed
\* at once by a cleanup_infrastructure (delete_containers, delete_networks)
\* that succeeded, leaves no network and no container named under local_llm_.
C1_RoundTrip ==
    \A p \in Procs : \A n \in 2..MaxOps :
        ( /\ JustReturned(p, n)
          /\ UniqueNames(app_config)
          /\ hist[p][n - 1] = [op |-> Create, res |-> "Ok", clean |-> TRUE]
          /\ hist[p][n].op = Cleanup
          /\ hist[p][n].res = "Ok" )
        => /\ PrefixedNets(networks) = {}
           /\ PrefixedConts(containers) = {}

C1_Witness ==
    /\ JustReturned(1, 2)
    /\ Len(ExtraServices(app_config)) = 2
    /\ UniqueNames(app_config)
    /\ hist[1][1] = [op |-> Create, res |-> "Ok", clean |-> TRUE]
    /\ hist[1][2].op = Cleanup
    /\ hist[1][2].res = "Ok"
    /\ containers # {}

\* The operation p runs is a cleanup_infrastructure that has reached its return.
CleanupReturning(p) == op[p] = Cleanup /\ pc[p] = "ret"

\* The cleanup p runs did nothing: no stop, no removal, the engine as before.
NoOp(p) ==
    /\ \A c \in issued[p] : c.call \in {"list_containers", "list_networks"}
    /\ Snapshot = pre[p]

C3_SecondCreateFails ==
    \A p \in Procs :
        ( /\ op[p] = Create
          /\ pc[p] = "ret"
          /\ hist[p] # <<>>
          /\ hist[p][Len(hist[p])].op = Create
          /\ hist[p][Len(hist[p])].res = "Ok" )
        => /\ res[p] # "Ok"
           /\ Cardinality(PrefixedNets(networks)) <= Cardinality(PrefixedNets(pre[p].networks))
           /\ Cardinality(PrefixedConts(containers)) <= Cardinality(PrefixedConts(pre[p].containers))

C3_Witness ==
    /\ op[1] = Create
    /\ pc[1] = "ret"
    /\ Len(hist[1]) = 1
    /\ hist[1][1] = [op |-> Create, res |-> "Ok", clean |-> TRUE]
    /\ ~faults[1]
    /\ Len(ExtraServices(app_config)) = 2

\* The health gate of p is running or has reached its return.
InGate(p) == op[p] = Gate /\ pc[p] # "idle"
GateReturned(p) == op[p] = Gate /\ pc[p] = "ret"

\* C4: the health gate returns success exactly at a poll that decodes to
\* status true, whatever the earlier polls returned: once such a poll is made
\* the gate has returned Ok and polls no more, it returns Ok in no other case,
\* and it never issues more than 120 polls.
C4_GateSucceedsAtFirstTrue ==
    \A p \in Procs :
        InGate(p) =>
            /\ polls[p].n <= 120
            /\ polls[p].last = "status_true" => GateReturned(p) /\ res[p] = "Ok"
            /\ (GateReturned(p) /\ res[p] = "Ok") => polls[p].last = "status_true"
            /\ pc[p] \in {"poll", "sleep", "timed_out"} => "status_true" \notin polls[p].seen

C4_Witness ==
    /\ GateReturned(1)
    /\ res[1] = "Ok"
    /\ polls[1].n = 120
    /\ polls[1].seen = {"transport_error", "decode_error", "status_false", "status_true"}

\* C5: the error the exhausted health gate returns is of a kind of its own: not
\* the generic error, and not a kind any other step of the workflow returns.
C5_TimeoutIsDistinctKind ==
    \A p \in Procs :
        (GateReturned(p) /\ res[p] # "Ok") =>
            res[p] \notin {"GenericError", "DockerError", "IOError", "TauriError",
                           "YamlError", "EnvironmentVariableError"}

\* C6 (state part): the gate returns an error or gives up only after 120 polls,
\* and the error is then the timeout, not a failure of a poll.
C6_ErrorOnlyWhenExhausted ==
    \A p \in Procs :
        InGate(p) =>
            /\ (GateReturned(p) /\ res[p] # "Ok") => polls[p].n = 120 /\ res[p] = TimeoutError
            /\ pc[p] = "timed_out" => polls[p].n = 120

\* C6 (step part): a poll that did not decode to status true is followed by the
\* wait, and the wait, while attempts remain, by another poll.
C6_FailedPollRetries ==
    \A p \in Procs :
        /\ (pc[p] = "poll" /\ pc'[p] # "poll" /\ polls'[p].last # "status_true")
              => pc'[p] = "sleep" /\ polls'[p].n = polls[p].n + 1
        /\ (pc[p] = "sleep" /\ pc'[p] # "sleep" /\ polls[p].n < 120)
              => pc'[p] = "poll"

\* C6: while attempts remain the health gate never returns an error: a poll
\* that ends in a transport error, a decode error or status false is followed
\* by a wait and another poll, and its failure is not returned to the caller.
C6_RetriesWhileAttemptsRemain ==
    [](C6_ErrorOnlyWhenExhausted) /\ [][C6_FailedPollRetries]_vars

C6_Witness ==
    /\ op[1] = Gate
    /\ pc[1] = "poll"
    /\ polls[1].n = 119
    /\ polls[1].seen = {"transport_error", "decode_error", "status_false"}

\* The engine calls of create_infrastructure, in the order the specification
\* gives: the two networks, the primary, the auxiliary, then each extra service.
ExpectedCalls(cfg) ==
    << [call |-> "create_network", name |-> <<"local_llm_", "frontend">>],
       [call |-> "create_network", name |-> <<"local_llm_", "backend">>],
       [call |-> "create_container", name |-> <<"local_llm_", "openwebui">>],
       [call |-> "start_container", name |-> <<"local_llm_", "openwebui">>],
       [call |-> "create_container", name |-> <<"local_llm_", "tika">>],
       [call |-> "start_container", name |-> <<"local_llm_", "tika">>] >>
    \o [j \in 1..(2 * Len(ExtraServices(cfg))) |->
          [call |-> IF j % 2 = 1 THEN "create_container" ELSE "start_container",
           name |-> <<"local_llm_">> \o ExtraServices(cfg)[(j + 1) \div 2].name]]

\* C7: create_infrastructure issues its calls in the fixed order; a call that
\* fails is the last one it issues and makes it return an error; it returns Ok
\* only after all of them; and it stops and removes nothing.
C7_CreateOrderAndAbort ==
    \A p \in Procs :
        (op[p] = Create /\ pc[p] # "idle") =>
            LET c == calls[p]
                e == ExpectedCalls(app_config)
            IN /\ Len(c) <= Len(e)
               /\ \A i \in 1..Len(c) : c[i].call = e[i].call /\ c[i].name = e[i].name
               /\ \A i \in 1..Len(c) :
                     ~c[i].ok => i = Len(c) /\ pc[p] = "ret" /\ res[p] # "Ok"
               /\ (pc[p] = "ret" /\ res[p] = "Ok") =>
                     Len(c) = Len(e) /\ \A i \in 1..Len(c) : c[i].ok
               /\ issued[p] = {}
               /\ pre[p].networks \subseteq networks
               /\ \A d \in pre[p].containers : d \in containers

C7_Witness ==
    /\ op[1] = Create
    /\ pc[1] = "ret"
    /\ res[1] # "Ok"
    /\ Len(ExtraServices(app_config)) = 2
    /\ Len(calls[1]) = 9
    /\ ~calls[1][9].ok
    /\ <<"local_llm_", "openwebui">> \in ContNames
    /\ Cardinality(containers) >= 4

\* The operations of hist[p], in order.
Ops(h) == [i \in 1..Len(h) |-> h[i].op]

\* C8: run invokes the image pull, the pre-emptive cleanup,
\* create_infrastructure and the health gate in that order, each only after the
\* one before returned Ok; and when create_infrastructure fails, a
\* cleanup_infrastructure is run before run returns its error.
C8_RunOrderAndRollback ==
    \A p \in Procs :
        LET h == hist[p]
        IN /\ Len(h) >= 1 => h[1].op = Pull
           /\ Len(h) >= 2 => h[2].op = Cleanup /\ h[1].res = "Ok"
           /\ Len(h) >= 3 => h[3].op = Create /\ h[2].res = "Ok"
           /\ Len(h) >= 4 => h[4].op = IF h[3].res = "Ok" THEN Gate ELSE Cleanup
           /\ (where[p] = "create" /\ pc[p] # "ret") => Ops(h) = <<Pull, Cleanup>>
           /\ (where[p] = "health") => SubSeq(Ops(h), 1, 3) = <<Pull, Cleanup, Create>>
           /\ (where[p] = "returned" /\ Len(h) >= 3 /\ h[3].res # "Ok") =>
                 /\ Len(h) = 4
                 /\ h[4].op = Cleanup
                 /\ out[p] # "Ok"

C8_Witness ==
    /\ where[1] = "returned"
    /\ Len(hist[1]) = 4
    /\ hist[1][3].op = Create
    /\ hist[1][3].res # "Ok"
    /\ hist[1][4] = [op |-> Cleanup, res |-> "Ok", clean |-> FALSE]
    /\ out[1] = "DockerError"

\* C9: of the containers named under local_llm_, only local_llm_openwebui is
\* joined to the frontend network or has a host port binding, and it has both;
\* every other one is joined to the backend network alone.
C9_OnlyPrimaryIsReachable ==
    \A c \in containers :
        StartsWith(c.name, <<"local_llm_">>) =>
            IF c.name = <<"local_llm_", "openwebui">>
            THEN /\ c.body.networks = {<<"local_llm_", "frontend">>, <<"local_llm_", "backend">>}
                 /\ PortBindings(c.body) = {<<"8080/tcp", "11690">>}
            ELSE /\ c.body.networks = {<<"local_llm_", "backend">>}
                 /\ PortBindings(c.body) = {}

C9_Witness ==
    /\ Cardinality({c \in containers : StartsWith(c.name, <<"local_llm_">>) /\ c.running}) = 4
    /\ \E c \in containers : c.name = <<"local_llm_", "a">> /\ c.body.exposed_ports = {"7000/tcp"}

\* C10: a cleanup_infrastructure that follows a failed create_infrastructure
\* and returns Ok leaves no container and no network of the failed pass, and
\* it returns Ok whenever none of its calls fails in transport, whichever
\* resources the failed pass did not get to create.
C10_CleanupAfterFailedCreate ==
    \A p \in Procs :
        ( /\ CleanupReturning(p)
          /\ hist[p] # <<>>
          /\ hist[p][Len(hist[p])].op = Create
          /\ hist[p][Len(hist[p])].res # "Ok" )
        => /\ ~faults[p] => res[p] = "Ok"
           /\ res[p] = "Ok" =>
                 /\ ManagedContainers(containers, app_config) = {}
                 /\ ManagedNetworks(networks) = {}
                 /\ PrefixedConts(containers) = {}

\* The failed pass had created a container it could not start.
C10_Witness ==
    /\ CleanupReturning(1)
    /\ res[1] = "Ok"
    /\ Len(hist[1]) = 1
    /\ hist[1][1] = [op |-> Create, res |-> "DockerError", clean |-> TRUE]
    /\ \E c \in pre[1].containers : c.name = <<"local_llm_", "tika">> /\ ~c.running
    /\ PrefixedConts(containers) = {}

\* The names for which cleanup p issued the call of the given kind.
Attempted(p, kind) == {c.name : c \in {d \in issued[p] : d.call = kind}}

\* C11 (state part): a cleanup_infrastructure that returns an error has at most
\* one container and at most one network whose removal it attempted and that
\* is still there (the failed removal was its last call); every container and
\* network whose removal it did not attempt is as it was; and when the error
\* came in the container phase no network call was issued at all.
C11_HardFailuresStopTeardown ==
    \A p \in Procs :
        (CleanupReturning(p) /\ res[p] # "Ok") =>
            /\ Cardinality(Attempted(p, "remove_container") \cap ContNames) <= 1
            /\ Cardinality(Attempted(p, "remove_network") \cap NetNames) <= 1
            /\ \A c \in pre[p].containers :
                  c.name \notin Attempted(p, "remove_container") => c \in containers
            /\ \A n \in pre[p].networks :
                  n.name \notin Attempted(p, "remove_network") => n \in networks
            /\ Attempted(p, "remove_container") \cap ContNames # {} =>
                  /\ Attempted(p, "list_networks") = {}
                  /\ Attempted(p, "remove_network") = {}
                  /\ networks = pre[p].networks

\* C11 (step part): the stop of a matched container, whatever its outcome, is
\* followed by the force-remove of that same container and changes no result;
\* a removal that leaves its container or network in place ends the cleanup
\* with an error in that very step.
C11_StopIsSoftRemoveIsHard ==
    \A p \in Procs :
        /\ (pc[p] = "stop_container" /\ issued'[p] # issued[p]) =>
              /\ pc'[p] = "remove_container"
              /\ res'[p] = res[p]
              /\ cur'[p] \in todo[p]
              /\ [call |-> "stop_container", name |-> cur'[p]] \in issued'[p]
        /\ (pc[p] = "remove_container" /\ pc'[p] # "remove_container") =>
              /\ [call |-> "remove_container", name |-> cur[p]] \in issued'[p]
              /\ IF cur[p] \in {c.name : c \in containers'}
                 THEN pc'[p] = "ret" /\ res'[p] = "DockerError"
                 ELSE pc'[p] \in {"stop_container", "delete_networks"} /\ res'[p] = res[p]
        /\ (pc[p] = "remove_network" /\ todo'[p] # todo[p]) =>
              IF networks' = networks
              THEN pc'[p] = "ret" /\ res'[p] = "DockerError"
              ELSE /\ Cardinality(networks \ networks') = 1
                   /\ res'[p] \in {res[p], "Ok"}

\* C11: in teardown a failing stop is ignored and the force-remove of that
\* container is still attempted; a failing container removal makes
\* cleanup_infrastructure return an error at once, the remaining matched
\* containers and all networks left in place; a failing network removal makes
\* it return an error at once, the remaining networks left in place.
C11_TeardownErrorPolicy ==
    [](C11_HardFailuresStopTeardown) /\ [][C11_StopIsSoftRemoveIsHard]_vars

\* A cleanup after a pass that could not start local_llm_tika: the stop of the
\* stopped container was refused, its removal went through, and the removal of
\* local_llm_openwebui then failed, with both networks left in place.
C11_Witness ==
    /\ CleanupReturning(1)
    /\ res[1] = "DockerError"
    /\ \E c \in pre[1].containers : c.name = <<"local_llm_", "tika">> /\ ~c.running
    /\ <<"local_llm_", "tika">> \in Attempted(1, "stop_container")
    /\ <<"local_llm_", "tika">> \in Attempted(1, "remove_container")
    /\ <<"local_llm_", "tika">> \notin ContNames
    /\ <<"local_llm_", "openwebui">> \in Attempted(1, "remove_container")
    /\ <<"local_llm_", "openwebui">> \in ContNames
    /\ Cardinality(PrefixedNets(networks)) = 2

\* The images of a configuration, in the order the specification gives.
ExpectedPulls(cfg) ==
    <<"ghcr.io/open-webui/open-webui:" \o cfg.openwebui_image_tag,
      "docker.io/apache/tika:" \o cfg.tika_image_tag>>
    \o [i \in 1..Len(ExtraServices(cfg)) |-> ExtraServices(cfg)[i].image]

DistinctContainerNames(cfg) ==
    /\ UniqueNames(cfg)
    /\ \A i \in 1..Len(ExtraServices(cfg)) :
          ExtraServices(cfg)[i].name \notin {<<"openwebui">>, <<"tika">>}

\* Process p is the run that follows an earlier one.
Reentered(p) == where[p] \in Alive /\ \E q \in Procs \ {p} : Terminated(q)

\* C13 as stated: whatever the configuration, the pre-emptive cleanup and the
\* create_infrastructure of a run that follows an earlier one succeed when
\* none of their engine calls fails in transport.
C13_ReentrySucceeds ==
    \A p \in Procs :
        ( /\ Reentered(p)
          /\ where[p] \in {"pre_cleanup", "create"}
          /\ pc[p] = "ret"
          /\ ~faults[p] )
        => res[p] = "Ok"

\* C13: for a configuration whose container names are pairwise distinct, the
\* pre-emptive cleanup and the create_infrastructure of a run that follows an
\* earlier one, which returned, exited or crashed at any point, succeed when
\* none of their engine calls fails in transport.
C13_ReentryIsSafe ==
    \A p \in Procs :
        ( /\ Reentered(p)
          /\ DistinctContainerNames(app_config)
          /\ where[p] \in {"pre_cleanup", "create"}
          /\ pc[p] = "ret"
          /\ ~faults[p] )
        => res[p] = "Ok"

\* The new run found resources under local_llm_ left by a run that crashed,
\* removed them and provisioned two extra services.
C13_Witness ==
    /\ where[1] = "crashed"
    /\ where[2] = "create"
    /\ pc[2] = "ret"
    /\ res[2] = "Ok"
    /\ ~faults[2]
    /\ Len(ExtraServices(app_config)) = 2
    /\ hist[2][2] = [op |-> Cleanup, res |-> "Ok", clean |-> FALSE]

\* Instance p has Ok from create_infrastructure and has not torn down since.
HoldsSuccess(p) ==
    \/ where[p] \in {"health", "app"}
    \/ where[p] = "create" /\ pc[p] = "ret" /\ res[p] = "Ok"

\* Everything create_infrastructure provisions is there and running.
Provisioned(ns, cs, cfg) ==
    /\ {<<"local_llm_", "frontend">>, <<"local_llm_", "backend">>} \subseteq {n.name : n \in ns}
    /\ \A n \in ManagedContainerNames(cfg) : \E c \in cs : c.name = n /\ c.running

\* C14 (first way): a step that breaks what an instance holding success has
\* provisioned is a stop or removal call of the other instance's cleanup.
C14_BrokenByOtherCleanup ==
    \A p \in Procs :
        ( /\ HoldsSuccess(p)
          /\ Provisioned(networks, containers, app_config)
          /\ ~Provisioned(networks', containers', app_config) )
        => \E q \in Procs \ {p} :
              /\ op[q] = Cleanup
              /\ pc[q] \in {"stop_container", "remove_container", "remove_network"}
              /\ issued'[q] # issued[q]

\* C14 (second way): a create call of an instance that the engine refuses, with
\* no transport failure, is for a name that is taken and that the instance did
\* not create in this pass.
C14_RefusedOnForeignName ==
    \A p \in Procs :
        ( /\ op[p] = Create
          /\ Len(calls'[p]) = Len(calls[p]) + 1
          /\ calls'[p][Len(calls'[p])].call \in {"create_network", "create_container"}
          /\ ~calls'[p][Len(calls'[p])].ok
          /\ ~faults'[p] )
        => LET e == calls'[p][Len(calls'[p])]
           IN /\ e.name \in NetNames \cup ContNames
              /\ \A i \in 1..Len(calls[p]) :
                    ~(calls[p][i].call = e.call /\ calls[p][i].name = e.name)

\* C14: two instances running against the same engine interfere, and in these
\* two ways: the infrastructure of an instance that has Ok from
\* create_infrastructure is taken down by the other instance's cleanup, and an
\* instance's create_infrastructure is refused on a name the other created.
C14_InstancesInterfere ==
    [][C14_BrokenByOtherCleanup /\ C14_RefusedOnForeignName]_vars

\* Instance 1 has entered the health gate and its primary container has been
\* removed by the pre-emptive cleanup of instance 2.
C14_Witness ==
    /\ where[1] = "health"
    /\ hist[1][3] = [op |-> Create, res |-> "Ok", clean |-> TRUE]
    /\ where[2] = "pre_cleanup"
    /\ [call |-> "remove_container", name |-> <<"local_llm_", "openwebui">>] \in issued[2]
    /\ <<"local_llm_", "openwebui">> \notin ContNames

\* The other way: instance 1 is refused the frontend network, whose name
\* instance 2 has taken, with no transport failure.
C14_NameClash ==
    /\ op[1] = Create
    /\ pc[1] = "ret"
    /\ res[1] = "DockerError"
    /\ ~faults[1]
    /\ calls[1] = <<[call |-> "create_network", name |-> <<"local_llm_", "frontend">>, ok |-> FALSE]>>
    /\ op[2] = Create
    /\ Len(calls[2]) >= 1
    /\ calls[2][1] = [call |-> "create_network", name |-> <<"local_llm_", "frontend">>, ok |-> TRUE]

\* Run p has invoked the operation o.
Invoked(p, o) ==
    \/ op[p] = o /\ where[p] \notin {"start", "off"}
    \/ \E i \in 1..Len(hist[p]) : hist[p][i].op = o

\* C15: create_infrastructure is invoked only after the image pull and the
\* pre-emptive cleanup both returned Ok, the health gate only after
\* create_infrastructure returned Ok, and the application is in its run phase
\* (or past it) only after the health gate returned Ok; an error of the pull,
\* of the pre-emptive cleanup or of the health gate is what run returns, with
\* nothing invoked after it.
C15_NoDegradedStart ==
    \A p \in Procs :
        LET h == hist[p]
        IN /\ Invoked(p, Create) =>
                 /\ Len(h) >= 2
                 /\ h[1] = [op |-> Pull, res |-> "Ok", clean |-> h[1].clean]
                 /\ h[2] = [op |-> Cleanup, res |-> "Ok", clean |-> h[2].clean]
           /\ Invoked(p, Gate) =>
                 /\ Len(h) >= 3
                 /\ h[3].op = Create
                 /\ h[3].res = "Ok"
           /\ where[p] \in {"app", "exit_cleanup", "exited"} =>
                 /\ Len(h) >= 4
                 /\ h[4].op = Gate
                 /\ h[4].res = "Ok"
           /\ \A i \in 1..Len(h) :
                 (h[i].res # "Ok" /\ (h[i].op \in {Pull, Gate} \/ i = 2)) =>
                     /\ Len(h) = i
                     /\ where[p] = "returned"
                     /\ out[p] = h[i].res

\* The pre-emptive cleanup failed: run returned its error and
\* create_infrastructure was never invoked.
C15_Witness ==
    /\ where[1] = "returned"
    /\ Len(hist[1]) = 2
    /\ hist[1][2].op = Cleanup
    /\ hist[1][2].res = "DockerError"
    /\ out[1] = "DockerError"
    /\ PrefixedNets(networks) = {}

\* C16 (state part): a run that has exited went through exactly one
\* cleanup_infrastructure after its health gate and returns Ok whatever that
\* cleanup returned; the cleanup on exit, whether the containers run or have
\* stopped, returns Ok when none of its calls fails in transport, and when it
\* returns Ok no managed container and no managed network is left.
C16_ExitCleanupRuns ==
    \A p \in Procs :
        /\ where[p] = "exit_cleanup" =>
              /\ op[p] = Cleanup
              /\ Len(hist[p]) = 4
              /\ hist[p][4] = [op |-> Gate, res |-> "Ok", clean |-> FALSE]
        /\ (where[p] = "exit_cleanup" /\ pc[p] = "ret") =>
              /\ ~faults[p] => res[p] = "Ok"
              /\ res[p] = "Ok" =>
                    /\ ManagedContainers(containers, app_config) = {}
                    /\ ManagedNetworks(networks) = {}
              /\ Attempted(p, "remove_network") # {} =>
                    ManagedContainers(containers, app_config) = {}
        /\ where[p] = "exited" =>
              /\ Len(hist[p]) = 5
              /\ hist[p][5].op = Cleanup
              /\ out[p] = "Ok"

C18_NoLeftoversAfterRun ==
    \A p \in Procs :
        ( /\ where[p] \in {"returned", "exited"}
          /\ Invoked(p, Create)
          /\ \A i \in 4..Len(hist[p]) :
                hist[p][i].op = Cleanup => hist[p][i].res = "Ok" )
        => /\ ManagedContainers(containers, app_config) = {}
           /\ ManagedNetworks(networks) = {}

\* C19: when create_infrastructure failed and the rollback cleanup was run,
\* the error run returns is the one create_infrastructure returned, whether the
\* rollback cleanup returned Ok or an error.
C19_RunReturnsCreateError ==
    \A p \in Procs :
        ( /\ where[p] = "returned"
          /\ Len(hist[p]) = 4
          /\ hist[p][3].op = Create
          /\ hist[p][3].res # "Ok"
          /\ hist[p][4].op = Cleanup )
        => /\ out[p] = hist[p][3].res
           /\ out_from[p] = Create

\* The container names of a configuration, exactly.
ExactContainerNames(cfg) ==
    {<<"local_llm_", "openwebui">>, <<"local_llm_", "tika">>}
    \cup {<<"local_llm_">> \o ExtraServices(cfg)[i].name : i \in 1..Len(ExtraServices(cfg))}

\* C20: a cleanup_infrastructure issues its stop and remove calls only for
\* containers named local_llm_openwebui, local_llm_tika or local_llm_<name> of
\* an extra service of the configuration, and its network removals only for
\* networks whose name begins with local_llm_; every other container and
\* network the engine held when the cleanup began is still there, unchanged.
C20_CleanupTouchesOnlyManaged ==
    \A p \in Procs :
        (op[p] = Cleanup /\ pc[p] # "idle") =>
            /\ Attempted(p, "stop_container") \subseteq ExactContainerNames(app_config)
            /\ Attempted(p, "remove_container") \subseteq ExactContainerNames(app_config)
            /\ \A n \in Attempted(p, "remove_network") : StartsWith(n, <<"local_llm_">>)
            /\ \A c \in pre[p].containers :
                  c.name \notin ExactContainerNames(app_config) => c \in containers
            /\ \A n \in pre[p].networks :
                  ~StartsWith(n.name, <<"local_llm_">>) => n \in networks

\* The cleanup p runs has come to its network phase.
InNetworkPhase(p) ==
    \/ pc[p] \in {"delete_networks", "remove_network"}
    \/ Attempted(p, "list_networks") # {}
    \/ Attempted(p, "remove_network") # {}

\* C21 (state part): once a cleanup_infrastructure is in its network phase, it
\* has listed the containers, attempted the removal of every managed container
\* the engine held when it began, and none of them exists any more.
C21_NoContainerLeftAtNetworks ==
    \A p \in Procs :
        (op[p] = Cleanup /\ pc[p] # "idle" /\ InNetworkPhase(p)) =>
            LET matched == {c.name : c \in ManagedContainers(pre[p].containers, app_config)}
            IN /\ Attempted(p, "list_containers") # {}
               /\ matched \subseteq Attempted(p, "remove_container")
               /\ matched \cap ContNames = {}
               /\ ManagedContainers(containers, app_config) = {}

\* C21 (step part): the network phase is entered only from the container phase,
\* with no container left to visit and no error; and a step that issues a
\* network call changes no container.
C21_NetworksOnlyAfterContainers ==
    \A p \in Procs :
        /\ (pc'[p] = "delete_networks" /\ pc[p] # "delete_networks") =>
              /\ pc[p] \in {"delete_containers", "remove_container"}
              /\ todo'[p] = {}
              /\ res'[p] = "none"
        /\ (pc'[p] = "remove_network" /\ pc[p] # "remove_network") =>
              pc[p] = "delete_networks"
        /\ (Attempted(p, "remove_network")' \ Attempted(p, "remove_network") # {}) =>
              /\ pc[p] = "remove_network"
              /\ containers' = containers

\* C21: cleanup_infrastructure removes all matched containers before it removes
\* any network: delete_networks is invoked only after delete_containers
\* returned Ok, so no network removal is attempted while a container that this
\* cleanup matched still exists.
C21_ContainersBeforeNetworks ==
    [](C21_NoContainerLeftAtNetworks) /\ [][C21_NetworksOnlyAfterContainers]_vars

\* A cleanup in the middle of its network phase: one network is removed, the
\* other is still to go, and the four containers it found, one of them stopped,
\* are gone.
C21_Witness ==
    /\ op[1] = Cleanup
    /\ pc[1] = "remove_network"
    /\ Cardinality(Attempted(1, "remove_network")) = 1
    /\ Cardinality(PrefixedNets(networks)) = 1
    /\ Cardinality(ManagedContainers(pre[1].containers, app_config)) = 4
    /\ \E c \in pre[1].containers : StartsWith(c.name, <<"local_llm_">>) /\ ~c.running
    /\ \E c \in pre[1].containers : StartsWith(c.name, <<"local_llm_">>) /\ c.running
    /\ Cardinality(Attempted(1, "remove_container")) = 4
    /\ PrefixedConts(containers) = {}

\* What is left of the health gate of p: two steps per poll not yet made, and
\* the steps to its return from where it stands.
GateMeasure(p) ==
    2 * (120 - polls[p].n) +
    (CASE pc[p] = "poll" -> 2
       [] pc[p] = "sleep" -> 3
       [] pc[p] = "timed_out" -> 1
       [] OTHER -> 0)

\* C22 (state part): the health gate makes at most 120 polls; when it has
\* returned an error, 120 polls were made and none decoded status true; when it
\* has returned after 120 polls none of which decoded status true, it returned
\* an error; and it gives up only after the 120th poll.
C22_TimeoutOnlyAfterAllPollsFailed ==
    \A p \in Procs :
        InGate(p) =>
            /\ polls[p].n <= 120
            /\ GateMeasure(p) >= 0
            /\ (GateReturned(p) /\ res[p] # "Ok") <=>
                  (GateReturned(p) /\ polls[p].n = 120 /\ "status_true" \notin polls[p].seen)
            /\ GateReturned(p) => res[p] \in {"Ok", "GenericError"}
            /\ pc[p] = "timed_out" =>
                  polls[p].n = 120 /\ "status_true" \notin polls[p].seen

\* C22 (step part): every step of the health gate, whatever the outcome of the
\* poll, brings it nearer to its return.
C22_EveryStepNearerToReturn ==
    \A p \in Procs :
        (op[p] = Gate /\ pc[p] \in {"poll", "sleep", "timed_out"} /\ pc'[p] # "idle"
            /\ <<pc[p], polls[p]>> # <<pc'[p], polls'[p]>>) =>
                GateMeasure(p)' < GateMeasure(p)

\* C22: the health gate terminates for every sequence of poll outcomes, and it
\* returns the timeout error exactly when 120 polls were made and all 120 were
\* unsuccessful: never after fewer than 120 polls, and never when one of its
\* polls decoded status true.
C22_GateTerminates ==
    /\ [](C22_TimeoutOnlyAfterAllPollsFailed)
    /\ [][C22_EveryStepNearerToReturn]_vars
    /\ \A p \in Procs :
          (op[p] = Gate /\ pc[p] \in {"poll", "sleep", "timed_out"}) ~> GateReturned(p)

\* The gate has given up: 120 polls, each a transport error, a body that did
\* not decode, or status false.
C22_Witness ==
    /\ GateReturned(1)
    /\ res[1] = "GenericError"
    /\ polls[1].n = 120
    /\ polls[1].last = "decode_error"
    /\ polls[1].seen = {"transport_error", "decode_error", "status_false"}

\* The positions of the extra services whose name an earlier one already has.
Repeats(cfg) ==
    {j \in 1..Len(ExtraServices(cfg)) :
        \E i \in 1..(j - 1) : ExtraServices(cfg)[i].name = ExtraServices(cfg)[j].name}

\* The first such position.
FirstRepeat(cfg) == CHOOSE j \in Repeats(cfg) : \A i \in Repeats(cfg) : j <= i

\* No extra service has the name of the primary or the auxiliary container.
NoFixedName(cfg) ==
    \A i \in 1..Len(ExtraServices(cfg)) :
        ExtraServices(cfg)[i].name \notin {<<"openwebui">>, <<"tika">>}

\* A create_infrastructure of p, begun with nothing managed in the engine and
\* with no call failed in transport, has returned.
CreateReturnedUndisturbed(p) ==
    /\ op[p] = Create
    /\ pc[p] = "ret"
    /\ ~faults[p]
    /\ ManagedContainers(pre[p].containers, app_config) = {}
    /\ ManagedNetworks(pre[p].networks) = {}

\* The create of p ended in the refused create_container of the extra service
\* at position j, the services before it created and started.
FailedAtExtra(p, j) ==
    LET c == calls[p]
        name == <<"local_llm_">> \o ExtraServices(app_config)[j].name
    IN /\ res[p] = "DockerError"
       /\ Len(c) = 6 + 2 * (j - 1) + 1
       /\ c[Len(c)] = [call |-> "create_container", name |-> name, ok |-> FALSE]
       /\ \A i \in 1..(Len(c) - 1) : c[i].ok
       /\ \A i \in 1..(j - 1) :
             \E d \in containers :
                /\ d.name = <<"local_llm_">> \o ExtraServices(app_config)[i].name
                /\ d.running
       /\ Cardinality({d \in containers : d.name = name}) = 1

\* A cleanup_infrastructure of p that follows a failed create_infrastructure
\* returns Ok when no call of it fails in transport, and then nothing managed
\* is left.
CleanupAfterFailedPassRemovesAll(p) ==
    ( /\ CleanupReturning(p)
      /\ hist[p] # <<>>
      /\ hist[p][Len(hist[p])].op = Create
      /\ hist[p][Len(hist[p])].res # "Ok"
      /\ hist[p][Len(hist[p])].clean )
    => /\ ~faults[p] => res[p] = "Ok"
       /\ res[p] = "Ok" =>
             /\ ManagedContainers(containers, app_config) = {}
             /\ ManagedNetworks(networks) = {}

====
